---- MODULE Spec2Model ----
(***************************************************************************)
(* Model of src/file-content-generator.ts: the generation of a JUnit test  *)
(* class skeleton from the class descriptors parsed out of a Java file.    *)
(*                                                                         *)
(* Text.  A JavaScript string is modelled as a sequence of pieces.  A      *)
(* piece is either one character (all text the code inspects or            *)
(* transforms: names, types, modifiers, paths) or one fixed fragment of a  *)
(* template literal.  Template fragments are cut at every interpolation    *)
(* and at every line end, and a line end is always the piece NL, so the    *)
(* lines of a generated text are recovered by splitting at NL.  Where a    *)
(* template spells out a word that an interpolation can also produce       *)
(* (public, Test, Compile, cut) the word is character-level in the         *)
(* template too, so that equal texts are equal sequences.  String          *)
(* concatenation is \o, the empty string is << >>, and `s.length` is used  *)
(* by the code only on character-level text or as an emptiness test.       *)
(* The UTF-8 encoding of the returned text (line 34) is not modelled: the  *)
(* text itself is what the call returns here.                              *)
(*                                                                         *)
(* vscode.Uri: the model is of a POSIX file URI, for which uri.fsPath and  *)
(* uri.path are the same text; one character sequence stands for both.     *)
(***************************************************************************)
EXTENDS Integers, Sequences, FiniteSets

VARIABLES
    pc,                 \* position of generateTestClassFileContent
    javaClassName,      \* argument: fallback source class name
    testFileUri,        \* argument: path of the test file
    testClassName,      \* argument: requested test class name
    packageDeclaration, \* local, line 13
    parseResult,        \* history: the value the parse of line 15 resolved to
    javaClasses,        \* local, line 15: the array, as the call has left it
    publicClass,        \* local, line 22: << >> while unset, <<descriptor>> once set
    fileContent         \* local, line 18: the text that is returned

vars == <<pc, javaClassName, testFileUri, testClassName, packageDeclaration,
          parseResult, javaClasses, publicClass, fileContent>>

----------------------------------------------------------------------------
(* Bounds of the model. *)

MaxClasses == 2         \* descriptors in one parse result
MaxCtorParams == 2      \* constructor parameters of a descriptor
MaxMethods == 3         \* public methods of a descriptor

----------------------------------------------------------------------------
(* JavaScript string primitives, on sequences of pieces. *)

NL == "\n"

Min(a, b) == IF a < b THEN a ELSE b
Max(a, b) == IF a > b THEN a ELSE b

\* s.startsWith(t)
startsWith(s, t) == Len(s) >= Len(t) /\ SubSeq(s, 1, Len(t)) = t

\* s.indexOf(t): the 0-based position of the first occurrence, -1 when none
indexOf(s, t) ==
    LET hits == {i \in 0..(Len(s) - Len(t)) : SubSeq(s, i + 1, i + Len(t)) = t}
    IN  IF hits = {} THEN -1 ELSE CHOOSE i \in hits : \A j \in hits : i <= j

\* s.lastIndexOf(c) for one piece c
lastIndexOf(s, c) ==
    LET hits == {i \in 0..(Len(s) - 1) : s[i + 1] = c}
    IN  IF hits = {} THEN -1 ELSE CHOOSE i \in hits : \A j \in hits : i >= j

\* s.substring(a, b): both ends clamped to 0..length, swapped when a > b
substring(s, a, b) ==
    LET ca == Max(0, Min(a, Len(s)))
        cb == Max(0, Min(b, Len(s)))
    IN  SubSeq(s, Min(ca, cb) + 1, Max(ca, cb))

\* s.slice(1)
slice1(s) == SubSeq(s, 2, Len(s))

\* s.charAt(0): the empty string when s is empty
charAt0(s) == SubSeq(s, 1, 1)

\* s.replace(/\//g, '.')
replaceSlashes(s) == [i \in 1..Len(s) |-> IF s[i] = "/" THEN "." ELSE s[i]]

LowerLetters == <<"a", "b", "c", "d", "e", "f", "g", "h", "i", "j", "k", "l", "m",
                  "n", "o", "p", "q", "r", "s", "t", "u", "v", "w", "x", "y", "z">>
UpperLetters == <<"A", "B", "C", "D", "E", "F", "G", "H", "I", "J", "K", "L", "M",
                  "N", "O", "P", "Q", "R", "S", "T", "U", "V", "W", "X", "Y", "Z">>

\* s.toUpperCase() and s.toLowerCase(), on character-level text
toUpperCase(s) ==
    [i \in 1..Len(s) |->
        IF \E k \in 1..26 : LowerLetters[k] = s[i]
        THEN UpperLetters[CHOOSE k \in 1..26 : LowerLetters[k] = s[i]]
        ELSE s[i]]
toLowerCase(s) ==
    [i \in 1..Len(s) |->
        IF \E k \in 1..26 : UpperLetters[k] = s[i]
        THEN LowerLetters[CHOOSE k \in 1..26 : UpperLetters[k] = s[i]]
        ELSE s[i]]

\* posix.basename(p), for a path that does not end in a slash
basename(p) == SubSeq(p, lastIndexOf(p, "/") + 2, Len(p))

\* posix.extname(p): from the last dot of the base name, unless there is none
\* or the base name starts with its only dot
extname(p) ==
    LET base == basename(p)
        dot == lastIndexOf(base, ".")
    IN  IF dot <= 0 THEN << >> ELSE SubSeq(base, dot + 1, Len(base))

----------------------------------------------------------------------------
(* Package name of a file, lines 46-63, and the package line, 167-173. *)

TestPathPrefix == <<"/", "s", "r", "c", "/", "t", "e", "s", "t", "/", "j", "a", "v", "a">>
MainPathPrefix == <<"/", "s", "r", "c", "/", "m", "a", "i", "n", "/", "j", "a", "v", "a">>

\* line 48: the number added to the position of the path prefix
PrefixSkip == 15

createPackageNameFromUri(uri, filename, isTest) ==
    LET pathPrefix == IF isTest THEN TestPathPrefix ELSE MainPathPrefix
        startIndex == indexOf(uri, pathPrefix) + PrefixSkip
        extension == extname(uri)
        name == IF filename = << >> THEN basename(uri) ELSE filename
        endIndex == IF extension /= << >> THEN indexOf(uri, name) - 1 ELSE Len(uri)
    IN  IF extension /= << >> /\ startIndex >= endIndex
        THEN << >>
        ELSE replaceSlashes(substring(uri, startIndex, endIndex))

generateTestClassPackageDeclaration(uri, name) ==
    LET packageName == createPackageNameFromUri(uri, name, TRUE)
    IN  IF packageName = << >>
        THEN << >>
        ELSE <<"package ">> \o packageName \o <<";">>

----------------------------------------------------------------------------
(* The arguments a call is made with. *)

JavaClassNames == { <<"F", "o", "o">>, <<"B", "a", "r">> }
TestClassNames == { <<"F", "o", "o", "T", "e", "s", "t">>, <<"T">> }

\* The directory of the test file: /w/src/test/java/a/b (package a.b),
\* /w/src/test/java (the test root itself), and two directories outside any
\* src/test/java tree, /home/u/proj/app and /x
DirInPackage ==
    <<"/", "w", "/", "s", "r", "c", "/", "t", "e", "s", "t", "/", "j", "a", "v", "a",
      "/", "a", "/", "b">>
DirIsRoot ==
    <<"/", "w", "/", "s", "r", "c", "/", "t", "e", "s", "t", "/", "j", "a", "v", "a">>
DirOutsideDeep ==
    <<"/", "h", "o", "m", "e", "/", "u", "/", "p", "r", "o", "j", "/", "a", "p", "p">>
DirOutsideShort == <<"/", "x">>

TestDirs == {DirInPackage, DirIsRoot, DirOutsideDeep, DirOutsideShort}

\* lines 163-164: the path getTestFileUri gives a test file, <dir>/<testClassName>.java
\* (dir is the source file's directory after line 162 has renamed its root)
TestFilePath(dir, testName) ==
    dir \o <<"/">> \o testName \o <<".", "j", "a", "v", "a">>

----------------------------------------------------------------------------
(* Class descriptors (JavaClass of ./types, as parseJavaClassesFromFile     *)
(* returns them).  A field that may be missing holds << >> when it is      *)
(* undefined and <<value>> when it is set.  Class, method and parameter    *)
(* names are Java identifiers, hence never empty.                          *)

Undefined == << >>
Some(v) == <<v>>
IsSet(o) == o /= << >>
ValueOf(o) == o[1]

Param(type, name) == [type |-> type, name |-> name]
Method(name, returnType, parameters) ==
    [name |-> name, returnType |-> returnType, parameters |-> parameters]

Void == <<"v", "o", "i", "d">>
IntType == <<"i", "n", "t">>

\* (Log log), (Map<K, V> Db), (int n)
ParamPool ==
    << Param(<<"L", "o", "g">>, <<"l", "o", "g">>),
       Param(<<"M", "a", "p", "<", "K", ",", " ", "V", ">">>, <<"D", "b">>),
       Param(IntType, <<"n">>) >>

\* int add(int a, int b); void add(Log log); void compile(); String getURL()
\* (the last with its parameters field missing)
MethodPool ==
    << Method(<<"a", "d", "d">>, IntType,
              Some(<<Param(IntType, <<"a">>), Param(IntType, <<"b">>)>>)),
       Method(<<"a", "d", "d">>, Void,
              Some(<<Param(<<"L", "o", "g">>, <<"l", "o", "g">>)>>)),
       Method(<<"c", "o", "m", "p", "i", "l", "e">>, Void, Some(<< >>)),
       Method(<<"g", "e", "t", "U", "R", "L">>, <<"S", "t", "r", "i", "n", "g">>,
              Undefined) >>

ClassNamePool ==
    << <<"H", "T", "T", "P", "C", "l", "i", "e", "n", "t">>,
       <<"h", "e", "l", "p", "e", "r">>,
       <<"C", "a", "l", "c">> >>
ClassParametersPool == << << >>, <<"<", "T", ">">>, << >> >>

Public == <<"p", "u", "b", "l", "i", "c">>
AccessModifiers ==
    { Public \o <<" ">>, << >>, <<"p", "r", "i", "v", "a", "t", "e", " ">> }

\* n entries of pool, taken in pool order from the one after `offset`, cyclically
Window(pool, offset, n) ==
    [i \in 1..n |-> pool[((offset + i - 1) % Len(pool)) + 1]]

\* A missing list (count -1) or a list of `count` pool entries
ListOrUndefined(pool, offset, count) ==
    IF count = -1 THEN Undefined ELSE Some(Window(pool, offset, count))

\* The descriptor of the i-th class of a file
Descriptor(i, modifier, nParams, nMethods) ==
    [ className |-> ClassNamePool[((i - 1) % Len(ClassNamePool)) + 1],
      accessModifier |-> modifier,
      classParameters |-> ClassParametersPool[((i - 1) % Len(ClassParametersPool)) + 1],
      constructorParameters |-> ListOrUndefined(ParamPool, i - 1, nParams),
      publicMethods |-> ListOrUndefined(MethodPool, i - 1, nMethods) ]

Array(items) == [kind |-> "array", items |-> items]
Null == [kind |-> "null", items |-> << >>]
UndefinedArray == [kind |-> "undefined", items |-> << >>]
Unset == [kind |-> "unset", items |-> << >>]

\* How many constructor parameters and public methods the classes of a file
\* have: up to the bounds, or both lists missing
ListSizes ==
    ((0..MaxCtorParams) \X (0..MaxMethods)) \cup {<<-1, -1>>}

\* What the parser may resolve to: null, undefined, or an array of up to
\* MaxClasses descriptors
ParseResults ==
    {Null, UndefinedArray} \cup
    { Array([i \in 1..k |-> Descriptor(i, mods[i], sizes[1], sizes[2])]) :
        k \in 0..MaxClasses, mods \in [1..MaxClasses -> AccessModifiers],
        sizes \in ListSizes }

----------------------------------------------------------------------------
(* The generator, lines 65-159 and 183-189. *)

\* mutant: the whole name is upper-cased
capitalizeWholeName(string) == toUpperCase(string)

capitalizeFirstLetter(string) == toUpperCase(charAt0(string)) \o slice1(string)

\* mutant: the whole name is lower-cased
lowercaseWholeName(string) == toLowerCase(string)

lowercaseFirstLetter(string) == toLowerCase(charAt0(string)) \o slice1(string)

\* mutant: a later argument is written before the earlier ones
AppendArgInFront(acc, item) ==
    IF acc /= << >> THEN item \o <<", ">> \o acc ELSE item

\* `acc += sep + item` when acc is not empty, `acc = item` when it is
\* (lines 74-78 and 101-105)
AppendArg(acc, item) ==
    IF acc /= << >> THEN acc \o <<", ">> \o item ELSE item

\* lines 72-80: the loop over the constructor parameters, from the i-th on
RECURSIVE ConstructorLoop(_, _, _, _)
ConstructorLoop(params, i, constructorArgs, testClassContent) ==
    IF i > Len(params)
    THEN [constructorArgs |-> constructorArgs, testClassContent |-> testClassContent]
    ELSE LET attributeName == lowercaseFirstLetter(params[i].name)
         IN  ConstructorLoop(params, i + 1,
                 AppendArg(constructorArgs, attributeName),
                 testClassContent \o <<"\t@Mock", NL, "\tprivate ">> \o params[i].type
                     \o <<" ">> \o attributeName \o <<";", NL>>)

\* lines 99-106: the loop over one method's parameters, from the i-th on
RECURSIVE MethodParamLoop(_, _, _, _)
MethodParamLoop(params, i, methodArgs, testClassContent) ==
    IF i > Len(params)
    THEN [methodArgs |-> methodArgs, testClassContent |-> testClassContent]
    ELSE MethodParamLoop(params, i + 1,
             AppendArg(methodArgs, params[i].name),
             testClassContent \o <<"\t\t">> \o params[i].type \o <<" ">>
                 \o params[i].name \o <<";", NL>>)

\* mutant: the result is captured whatever the return type
CallStartAlwaysCapturing(returnType) ==
    <<"\t\t">> \o returnType \o <<" actualValue = ">>

\* lines 111-115: what the call of the method under test is written after
CallStart(returnType) ==
    IF returnType /= Void
    THEN <<"\t\t">> \o returnType \o <<" actualValue = ">>
    ELSE <<"\t\t">>

\* lines 92-117: the test of one public method, appended to testClassContent
MethodTest(method, varName, testClassContent) ==
    LET opened == testClassContent \o <<NL, "\t@Test", NL, "\tpublic void should">>
                      \o capitalizeFirstLetter(method.name) \o <<"() {", NL>>
        hasParams == IsSet(method.parameters) /\ Len(ValueOf(method.parameters)) > 0
        args == IF hasParams
                THEN LET r == MethodParamLoop(ValueOf(method.parameters), 1, << >>,
                                  opened \o <<"\t\t// TODO: initialize args", NL>>)
                     IN  [r EXCEPT !.testClassContent = @ \o <<NL>>]
                ELSE [methodArgs |-> << >>, testClassContent |-> opened]
    IN  args.testClassContent \o CallStart(method.returnType) \o varName \o <<".">> \o method.name \o <<"(">> \o args.methodArgs
             \o <<");", NL, NL, "\t\t// TODO: assert scenario", NL, "\t}", NL>>

\* lines 91-118: the loop over the public methods, from the i-th on
RECURSIVE MethodLoop(_, _, _, _)
MethodLoop(methods, i, varName, testClassContent) ==
    IF i > Len(methods)
    THEN testClassContent
    ELSE MethodLoop(methods, i + 1, varName,
                    MethodTest(methods[i], varName, testClassContent))

\* lines 121-124 and 139-142: the test emitted when there is no method to test
DefaultTest ==
    <<"\t@Test", NL, "\tpublic void should", "C", "o", "m", "p", "i", "l", "e", "() {", NL,
      "\t\tassertThat(\"Actual value\", is(\"Expected value\"));", NL, "\t}">>

\* mutant: the default test is emitted after the tests of the methods too
TestMethodsAndDefault(publicMethods, varName, testClassContent) ==
    IF IsSet(publicMethods) /\ Len(ValueOf(publicMethods)) > 0
    THEN MethodLoop(ValueOf(publicMethods), 1, varName, testClassContent)
             \o DefaultTest \o <<NL>>
    ELSE testClassContent \o DefaultTest \o <<NL>>

\* lines 90-125: a test per public method, or the default test when the
\* list is missing or empty
TestMethods(publicMethods, varName, testClassContent) ==
    IF IsSet(publicMethods) /\ Len(ValueOf(publicMethods)) > 0
    THEN MethodLoop(ValueOf(publicMethods), 1, varName, testClassContent)
    ELSE testClassContent \o DefaultTest \o <<NL>>

createTestClass(javaClass) ==
    LET varName == lowercaseFirstLetter(javaClass.className)
        declared == <<NL, "@RunWith(MockitoJUnitRunner.class)", NL>>
                        \o javaClass.accessModifier \o <<"class ">> \o javaClass.className
                        \o <<"T", "e", "s", "t", " {", NL>>
        ctor == IF IsSet(javaClass.constructorParameters)
                   /\ Len(ValueOf(javaClass.constructorParameters)) > 0
                THEN ConstructorLoop(ValueOf(javaClass.constructorParameters), 1,
                                     << >>, declared)
                ELSE [constructorArgs |-> << >>, testClassContent |-> declared]
        setup == ctor.testClassContent
                    \o <<NL, "\tprivate ">> \o javaClass.className
                    \o javaClass.classParameters \o <<" ">> \o varName \o <<";", NL,
                         NL, "\t@Before", NL, "\tpublic void setup() {", NL, "\t\tthis.">>
                    \o varName \o <<" = new ">> \o javaClass.className
                    \o javaClass.classParameters \o <<"(">> \o ctor.constructorArgs
                    \o <<");", NL, "\t}", NL>>
    IN  TestMethods(javaClass.publicMethods, varName, setup) \o <<"}", NL>>

\* mutant: the two names are taken the other way round
createDefaultTestClassSwapped(name, testName) ==
    <<NL>> \o Public \o <<" ", "class ">> \o name \o <<" {", NL, "\tprivate ">>
        \o testName \o <<" ", "c", "u", "t", ";", NL, NL, "\t@Before", NL,
             "\tpublic void setup() {", NL, "\t\tthis.", "c", "u", "t", " = new ">>
        \o testName \o <<"(", ");", NL, "\t}", NL, NL>> \o DefaultTest \o <<NL, "}">>

createDefaultTestClass(name, testName) ==
    <<NL>> \o Public \o <<" ", "class ">> \o testName \o <<" {", NL, "\tprivate ">>
        \o name \o <<" ", "c", "u", "t", ";", NL, NL, "\t@Before", NL,
             "\tpublic void setup() {", NL, "\t\tthis.", "c", "u", "t", " = new ">>
        \o name \o <<"(", ");", NL, "\t}", NL, NL>> \o DefaultTest \o <<NL, "}">>

createDefaultImports ==
    <<NL, NL, "import static org.hamcrest.Matchers.*;", NL,
      "import static org.junit.Assert.assertEquals;", NL,
      "import static org.junit.Assert.assertThat;", NL,
      "import static org.mockito.Mockito.*;", NL,
      "import org.hamcrest.CoreMatchers;", NL,
      "import org.junit.After;", NL,
      "import org.junit.Before;", NL,
      "import org.junit.Test;", NL,
      "import org.junit.runner.RunWith;", NL,
      "import org.mockito.ArgumentCaptor;", NL,
      "import org.mockito.Mock;", NL,
      "import org.mockito.junit.MockitoJUnitRunner;", NL>>

\* mutant: the last class marked public is found, not the first
FindLastPublicClass(classes) ==
    LET hits == {i \in 1..Len(classes) : startsWith(classes[i].accessModifier, Public)}
    IN  IF hits = {} THEN 0 ELSE CHOOSE i \in hits : \A j \in hits : i >= j

\* line 22: the position of the first class whose accessModifier starts with
\* 'public', 0 when find() returns undefined
FindPublicClass(classes) ==
    LET hits == {i \in 1..Len(classes) : startsWith(classes[i].accessModifier, Public)}
    IN  IF hits = {} THEN 0 ELSE CHOOSE i \in hits : \A j \in hits : i <= j

\* mutant: the modifier is written without its trailing space
MadePublicWithoutSpace(javaClass) == [javaClass EXCEPT !.accessModifier = Public]

\* line 25: publicClass.accessModifier = 'public '
MadePublic(javaClass) == [javaClass EXCEPT !.accessModifier = Public \o <<" ">>]

\* mutant: the test class is named after the fallback class name
SelectAndRenderFallbackName(classes, name, testName) ==
    IF classes.kind = "array" /\ Len(classes.items) > 0
    THEN LET found == FindPublicClass(classes.items)
             index == IF found = 0 THEN 1 ELSE found
             chosen == IF found = 0
                       THEN MadePublic(classes.items[1])
                       ELSE classes.items[found]
         IN  [ publicClass |-> Some(chosen),
               javaClasses |-> [classes EXCEPT !.items[index] = chosen],
               text |-> createTestClass([chosen EXCEPT !.className = name]) ]
    ELSE [ publicClass |-> Undefined,
           javaClasses |-> classes,
           text |-> createDefaultTestClass(name, testName) ]

\* lines 20-32: the class that is rendered, the array as the call leaves it
\* and the class text.  publicClass is an alias of an element of the array,
\* so the assignment of line 25 changes the array too.
SelectAndRender(classes, name, testName) ==
    IF classes.kind = "array" /\ Len(classes.items) > 0
    THEN LET found == FindPublicClass(classes.items)
             index == IF found = 0 THEN 1 ELSE found
             chosen == IF found = 0
                       THEN MadePublic(classes.items[1])
                       ELSE classes.items[found]
         IN  [ publicClass |-> Some(chosen),
               javaClasses |-> [classes EXCEPT !.items[index] = chosen],
               text |-> createTestClass(chosen) ]
    ELSE [ publicClass |-> Undefined,
           javaClasses |-> classes,
           text |-> createDefaultTestClass(name, testName) ]

----------------------------------------------------------------------------

Init ==
    /\ pc = "idle"
    /\ javaClassName = << >>
    /\ testFileUri = << >>
    /\ testClassName = << >>
    /\ packageDeclaration = << >>
    /\ parseResult = Unset
    /\ javaClasses = Unset
    /\ publicClass = Undefined
    /\ fileContent = << >>

\* lines 7-15: the call, up to the await of the parse
Call(name, dir, testName) ==
    /\ pc = "idle"
    /\ pc' = "await"
    /\ javaClassName' = name
    /\ testFileUri' = TestFilePath(dir, testName)
    /\ testClassName' = testName
    /\ packageDeclaration' =
           generateTestClassPackageDeclaration(TestFilePath(dir, testName), testName)
    /\ UNCHANGED <<parseResult, javaClasses, publicClass, fileContent>>

\* line 15: the parse resolves and its result is bound to javaClasses
ParseResolved(result) ==
    /\ pc = "await"
    /\ pc' = "parsed"
    /\ parseResult' = result
    /\ javaClasses' = result
    /\ UNCHANGED <<javaClassName, testFileUri, testClassName, packageDeclaration,
                   publicClass, fileContent>>

\* lines 16-34: the rest of the call, up to the return of the text
Generate ==
    /\ pc = "parsed"
    /\ pc' = "done"
    /\ LET r == SelectAndRender(javaClasses, javaClassName, testClassName)
       IN  /\ publicClass' = r.publicClass
           /\ javaClasses' = r.javaClasses
           /\ fileContent' = packageDeclaration \o createDefaultImports \o r.text
    /\ UNCHANGED <<javaClassName, testFileUri, testClassName, packageDeclaration,
                   parseResult>>

\* the caller has taken the text; the locals of the call are gone
Return ==
    /\ pc = "done"
    /\ pc' = "idle"
    /\ javaClassName' = << >>
    /\ testFileUri' = << >>
    /\ testClassName' = << >>
    /\ packageDeclaration' = << >>
    /\ parseResult' = Unset
    /\ javaClasses' = Unset
    /\ publicClass' = Undefined
    /\ fileContent' = << >>

Next ==
    \/ \E name \in JavaClassNames, dir \in TestDirs, testName \in TestClassNames :
           Call(name, dir, testName)
    \/ \E result \in ParseResults : ParseResolved(result)
    \/ Generate
    \/ Return

Spec == Init /\ [][Next]_vars

----------------------------------------------------------------------------
(* Reading a generated text back: its lines, and the parts of a line.      *)
(* L is always the text split into its lines.                              *)

\* the segments of s between the occurrences of the piece sep
Split(s, sep) ==
    LET IsSep(i) == s[i] = sep
        seps == SelectSeq([i \in 1..Len(s) |-> i], IsSep)
    IN  [k \in 1..(Len(seps) + 1) |->
            SubSeq(s, IF k = 1 THEN 1 ELSE seps[k - 1] + 1,
                      IF k > Len(seps) THEN Len(s) ELSE seps[k] - 1)]

\* the positions, in order, of the lines that are exactly `line`
LinesEqual(L, line) ==
    LET Is(i) == L[i] = line
    IN  SelectSeq([i \in 1..Len(L) |-> i], Is)

\* the positions, in order, of the lines that start with `prefix`
LinesStarting(L, prefix) ==
    LET Starts(i) == startsWith(L[i], prefix)
    IN  SelectSeq([i \in 1..Len(L) |-> i], Starts)

\* the text from the first line end on: everything after the package line
AfterPackage(text) ==
    IF indexOf(text, <<NL>>) = -1 THEN << >>
    ELSE SubSeq(text, indexOf(text, <<NL>>) + 1, Len(text))

\* the arguments written between the "(" and the closing ");" of a line
ArgumentsOf(line) ==
    LET inner == SubSeq(line, indexOf(line, <<"(">>) + 2, Len(line) - 1)
    IN  IF inner = << >> THEN << >> ELSE Split(inner, ", ")

\* a name with its first character in the other case, character by character
FirstLowered(name) ==
    [i \in 1..Len(name) |-> IF i = 1 THEN toLowerCase(<<name[1]>>)[1] ELSE name[i]]
FirstRaised(name) ==
    [i \in 1..Len(name) |-> IF i = 1 THEN toUpperCase(<<name[1]>>)[1] ELSE name[i]]

ListOf(o) == IF IsSet(o) THEN ValueOf(o) ELSE << >>

Done == pc = "done"
\* the call has returned the test class of a parsed class
Rendered == Done /\ IsSet(publicClass)
HasDescriptors(r) == r.kind = "array" /\ Len(r.items) > 0
NoneMarkedPublic(r) ==
    \A i \in 1..Len(r.items) : ~startsWith(r.items[i].accessModifier, Public)

Selected == ValueOf(publicClass)
CtorParams == ListOf(Selected.constructorParameters)
Methods == ListOf(Selected.publicMethods)

MockLine == <<"\t@Mock">>
TestLine == <<"\t@Test">>
AssertLine == <<"\t\tassertThat(\"Actual value\", is(\"Expected value\"));">>
ShouldCompileLine ==
    <<"\tpublic void should", "C", "o", "m", "p", "i", "l", "e", "() {">>
PublicClass == <<"p", "u", "b", "l", "i", "c", " ", "class ">>

\* "<modifier>class <name> {": the line after the @RunWith line
DeclarationLine(L) == L[LinesEqual(L, <<"@RunWith(MockitoJUnitRunner.class)">>)[1] + 1]
\* "this.<var> = new <Class>(<args>);"
SetupLine(L) == L[LinesStarting(L, <<"\t\tthis.">>)[1]]
\* "private <Class> <var>;": the line two before the @Before line
FieldLine(L) == L[LinesEqual(L, <<"\t@Before">>)[1] - 2]

\* the signature line of the k-th test method
SignatureLine(L, k) == L[LinesEqual(L, TestLine)[k] + 1]

\* the lines of the k-th test method, from the one after its signature to
\* its closing brace
TestBody(L, k) ==
    LET at == LinesEqual(L, TestLine)
        last == IF k < Len(at) THEN at[k + 1] - 2 ELSE Len(L) - 2
    IN  SubSeq(L, at[k] + 2, last)

\* the receiver of the call in a line "[<type> actualValue = ]<var>.<method>(...);"
ReceiverOf(callLine) ==
    LET capture == indexOf(callLine, <<" actualValue = ">>)
    IN  SubSeq(callLine, IF capture = -1 THEN 2 ELSE capture + 2,
               indexOf(callLine, <<".">>))

\* the line of a test body that calls the method: the fourth from its end
CallLine(body) == body[Len(body) - 3]

\* the lines a test declares its method's arguments with
ExpectedLocals(params) ==
    IF Len(params) = 0 THEN << >>
    ELSE << <<"\t\t// TODO: initialize args">> >>
             \o [i \in 1..Len(params) |->
                    <<"\t\t">> \o params[i].type \o <<" ">> \o params[i].name \o <<";">>]
             \o << << >> >>

----------------------------------------------------------------------------
C2_OneTestPerMethodInOrder ==
    (Rendered /\ Len(Methods) >= 1) =>
        LET L == Split(fileContent, NL)
        IN  /\ Len(LinesEqual(L, TestLine)) = Len(Methods)
            /\ \A k \in 1..Len(Methods) :
                   SignatureLine(L, k) =
                       <<"\tpublic void should">> \o FirstRaised(Methods[k].name)
                           \o <<"() {">>

C2_Witness ==
    /\ Rendered
    /\ Len(Methods) >= 3
    /\ Methods[1].name = Methods[2].name
    /\ Methods[3].name /= Methods[1].name

(* C3: when the parse gave at least one descriptor and none is marked      *)
(* public, the first descriptor is the one rendered and the test class is  *)
(* declared "public class <className>Test {".                              *)
C3_FirstClassDeclaredPublic ==
    (Done /\ HasDescriptors(parseResult) /\ NoneMarkedPublic(parseResult)) =>
        LET L == Split(fileContent, NL)
            first == parseResult.items[1]
        IN  /\ IsSet(publicClass)
            /\ Selected.className = first.className
            /\ Selected.constructorParameters = first.constructorParameters
            /\ Selected.publicMethods = first.publicMethods
            /\ DeclarationLine(L) =
                   PublicClass \o first.className \o <<"T", "e", "s", "t", " {">>
            /\ FieldLine(L) =
                   <<"\tprivate ">> \o first.className \o first.classParameters \o <<" ">>
                       \o FirstLowered(first.className) \o <<";">>

C3_Witness ==
    /\ Done
    /\ HasDescriptors(parseResult)
    /\ NoneMarkedPublic(parseResult)
    /\ Len(parseResult.items) >= 2
    /\ parseResult.items[1].accessModifier /= << >>

(* C4: when the parse gave no descriptor (an empty array, null or          *)
(* undefined) the text is the package line, the default imports and the    *)
(* default class: named by the requested test class name, one field cut of *)
(* the fallback class, a setup that calls its constructor without          *)
(* arguments, the one test shouldCompile, and no mock field.               *)
C4_DefaultScaffold ==
    (Done /\ ~HasDescriptors(parseResult)) =>
        LET L == Split(fileContent, NL)
            head == packageDeclaration \o createDefaultImports
        IN  /\ startsWith(fileContent, head)
            /\ Split(SubSeq(fileContent, Len(head) + 1, Len(fileContent)), NL) =
                   << << >>,
                      PublicClass \o testClassName \o <<" {">>,
                      <<"\tprivate ">> \o javaClassName \o <<" ", "c", "u", "t", ";">>,
                      << >>,
                      <<"\t@Before">>,
                      <<"\tpublic void setup() {">>,
                      <<"\t\tthis.", "c", "u", "t", " = new ">> \o javaClassName
                          \o <<"(", ");">>,
                      <<"\t}">>,
                      << >>,
                      TestLine,
                      ShouldCompileLine,
                      AssertLine,
                      <<"\t}">>,
                      <<"}">> >>
            /\ ArgumentsOf(SetupLine(L)) = << >>
            /\ Len(LinesEqual(L, MockLine)) = 0
            /\ Len(LinesEqual(L, TestLine)) = 1

C4_Witness ==
    /\ Done
    /\ parseResult.kind = "undefined"
    /\ javaClassName = <<"B", "a", "r">>
    /\ packageDeclaration /= << >>

(* C5: a rendered class without public methods (the list empty or missing) *)
(* has exactly one test, shouldCompile, whose body is the placeholder      *)
(* assertion; a rendered class with a public method never has a test with  *)
(* that body.                                                              *)
C5_DefaultTestIffNoMethods ==
    Rendered =>
        LET L == Split(fileContent, NL)
        IN  IF Len(Methods) = 0
            THEN /\ Len(LinesEqual(L, TestLine)) = 1
                 /\ SignatureLine(L, 1) = ShouldCompileLine
                 /\ TestBody(L, 1) = <<AssertLine, <<"\t}">> >>
            ELSE Len(LinesEqual(L, AssertLine)) = 0

C5_Witness ==
    /\ Rendered
    /\ ~IsSet(Selected.publicMethods)
    /\ Selected.classParameters /= << >>

(* C6: a test file location whose path does not contain /src/test/java     *)
(* gives the empty package name, and no package line is emitted.           *)
C6_NoMarkerNoPackage ==
    (pc /= "idle" /\ indexOf(testFileUri, TestPathPrefix) = -1)
        => /\ createPackageNameFromUri(testFileUri, testClassName, TRUE) = << >>
           /\ packageDeclaration = << >>
           /\ (Done => Split(fileContent, NL)[1] = << >>)

(* C7: the instance field is named by the class name with only its first   *)
(* character lower-cased (HTTPClient gives hTTPClient): in the field       *)
(* declaration, in the setup assignment and as the receiver of every       *)
(* method call; lower-casing the first character of that name again        *)
(* changes nothing.                                                        *)
C7_FieldNamedByLowerFirst ==
    Rendered =>
        LET L == Split(fileContent, NL)
            expected == FirstLowered(Selected.className)
        IN  /\ FieldLine(L) = <<"\tprivate ">> \o Selected.className
                   \o Selected.classParameters \o <<" ">> \o expected \o <<";">>
            /\ startsWith(SetupLine(L), <<"\t\tthis.">> \o expected \o <<" = new ">>)
            /\ \A k \in 1..Len(Methods) : ReceiverOf(CallLine(TestBody(L, k))) = expected
            /\ (Selected.className = <<"H", "T", "T", "P", "C", "l", "i", "e", "n", "t">>
                   => expected = <<"h", "T", "T", "P", "C", "l", "i", "e", "n", "t">>)
            /\ lowercaseFirstLetter(expected) = expected
            /\ lowercaseFirstLetter(Selected.className) = expected

C7_Witness ==
    /\ Rendered
    /\ Selected.className = <<"H", "T", "T", "P", "C", "l", "i", "e", "n", "t">>
    /\ Len(Methods) >= 2

(* C8: the test of a public method with parameters p_1..p_k and return     *)
(* type r declares the k locals "<type_i> <name_i>;" in order, after the   *)
(* "TODO: initialize args" comment exactly when k > 0, calls               *)
(* <var>.<method>(name_1, ..., name_k), captures the result in             *)
(* "<r> actualValue" exactly when r is not void, and ends with the         *)
(* "TODO: assert scenario" comment.                                        *)
C8_TestMethodBody ==
    Rendered =>
        LET L == Split(fileContent, NL)
            var == FirstLowered(Selected.className)
        IN  \A k \in 1..Len(Methods) :
                LET method == Methods[k]
                    params == ListOf(method.parameters)
                    body == TestBody(L, k)
                    locals == ExpectedLocals(params)
                    call == body[Len(locals) + 1]
                IN  /\ Len(body) = Len(locals) + 4
                    /\ SubSeq(body, 1, Len(locals)) = locals
                    /\ ArgumentsOf(call) = [i \in 1..Len(params) |-> params[i].name]
                    /\ (indexOf(call, <<" actualValue = ">>) /= -1)
                           <=> (method.returnType /= <<"v", "o", "i", "d">>)
                    /\ startsWith(call,
                           (IF method.returnType /= <<"v", "o", "i", "d">>
                            THEN <<"\t\t">> \o method.returnType \o <<" actualValue = ">>
                            ELSE <<"\t\t">>)
                               \o var \o <<".">> \o method.name \o <<"(">>)
                    /\ call[Len(call)] = ");"
                    /\ SubSeq(body, Len(locals) + 2, Len(body)) =
                           << << >>, <<"\t\t// TODO: assert scenario">>, <<"\t}">> >>

C8_Witness ==
    /\ Rendered
    /\ \E k \in 1..Len(Methods) :
           /\ Len(ListOf(Methods[k].parameters)) >= 2
           /\ Methods[k].returnType /= Void
    /\ \E k \in 1..Len(Methods) :
           /\ Len(ListOf(Methods[k].parameters)) = 0
           /\ Methods[k].returnType = Void

(* C9: a call changes the parsed descriptors in at most one place.  If a   *)
(* descriptor's modifier starts with "public", the first such descriptor   *)
(* is rendered and nothing changes; if none does, the first descriptor's   *)
(* accessModifier becomes "public " and nothing else changes.              *)
C9_OnlyFirstModifierMayChange ==
    Done =>
        IF ~HasDescriptors(parseResult)
        THEN javaClasses = parseResult /\ ~IsSet(publicClass)
        ELSE LET before == parseResult.items
                 after == javaClasses.items
             IN  /\ javaClasses.kind = "array"
                 /\ Len(after) = Len(before)
                 /\ IsSet(publicClass)
                 /\ IF NoneMarkedPublic(parseResult)
                    THEN /\ after[1].accessModifier = <<"p", "u", "b", "l", "i", "c", " ">>
                         /\ after[1].className = before[1].className
                         /\ after[1].classParameters = before[1].classParameters
                         /\ after[1].constructorParameters = before[1].constructorParameters
                         /\ after[1].publicMethods = before[1].publicMethods
                         /\ \A i \in 2..Len(before) : after[i] = before[i]
                         /\ Selected = after[1]
                    ELSE /\ after = before
                         /\ \E i \in 1..Len(before) :
                                /\ startsWith(before[i].accessModifier, Public)
                                /\ \A j \in 1..(i - 1) :
                                       ~startsWith(before[j].accessModifier, Public)
                                /\ Selected = before[i]

C9_Witness ==
    /\ Done
    /\ HasDescriptors(parseResult)
    /\ Len(parseResult.items) >= 2
    /\ javaClasses /= parseResult
    /\ IsSet(parseResult.items[2].publicMethods)

(* C10: with a descriptor to render, the test class is declared under the  *)
(* name <className>Test, and the imports and the class body are the same   *)
(* whatever fallback class name and requested test class name the call is  *)
(* given; the declared name may differ from the requested one.             *)
C10_BodyIgnoresFallbackNames ==
    Rendered =>
        LET L == Split(fileContent, NL)
        IN  /\ DeclarationLine(L) = Selected.accessModifier \o <<"class ">>
                   \o Selected.className \o <<"T", "e", "s", "t", " {">>
            /\ \A name \in JavaClassNames, testName \in TestClassNames :
                   AfterPackage(fileContent) =
                       createDefaultImports \o SelectAndRender(parseResult, name, testName).text

C10_Witness ==
    /\ Rendered
    /\ packageDeclaration /= << >>
    /\ Split(fileContent, NL)[1] = packageDeclaration
    /\ Selected.className \o <<"T", "e", "s", "t">> /= testClassName

====
